---------------------------- MODULE Spec2Model ----------------------------
(***************************************************************************)
(* State-machine model of the three command-line tools of the paper-review *)
(* skill:                                                                  *)
(*   scripts/notion_export.py  (Document Exporter)   -> SpecExport         *)
(*   scripts/find_repo.py      (Repository Finder)   -> SpecFind           *)
(*   scripts/fetch_paper.py    (Paper Fetcher)       -> SpecFetch          *)
(* Each tool is a sequential program; pc is its position, and every remote *)
(* call is one action whose response is chosen by the environment.         *)
(* Python strings whose content is inspected (credentials, titles, author  *)
(* lists, repository paths) are sequences of one-character strings; the    *)
(* extracted paper text is a run-length encoded string (see Text below).   *)
(***************************************************************************)
EXTENDS Integers, Sequences, FiniteSets, TLC

VARIABLES
    pc,         \* position of the running tool
    err,        \* the exception that ended the tool ("" while none)
    \* ---- notion_export.py
    env,        \* NOTION_API_KEY: [set, val]
    keyFile,    \* ~/.config/notion/api_key: [exists, content]
    argDb,      \* --db: [given, val]
    argUpdate,  \* --update: [given, val]
    blocks,     \* the block list read from --blocks
    children,   \* remote: ordered child blocks of the target page
    nextId,     \* remote: next block identifier to assign
    before,     \* remote: the target page's children when the tool started
    reqs,       \* every HTTP request issued so far, with its reply, in order
    db_id,      \* main's db_id
    page_id,    \* the page the append loop writes to
    data,       \* update_page's current listing response
    todo,       \* blocks of data["results"] the for-loop has not visited yet
    i,          \* offset of the append loop (range(0, len(blocks), 100))
    url,        \* update_page's listing url: its start_cursor (0: none)
    parent_id,  \* find_or_create_papers_db's parent_id
    \* ---- find_repo.py
    title, authors, text,  \* find_repo's arguments (text: the regex matches)
    repos,      \* find_repo's repos list
    searches,   \* outcome of each search_github call so far, in order
    \* ---- fetch_paper.py
    tool,       \* what pdftotext does on this machine
    plumber,    \* what pdfplumber does on this machine
    pypdf,      \* what PyPDF2 does on this machine
    tmpFile,    \* "none" | "exists" | "removed": the NamedTemporaryFile
    tried,      \* extraction backends attempted so far, in order
    raw,        \* what extract_text_from_pdf returned: [set, text]
    meta        \* fetch_paper's meta["text"]: [set, text]

xvars == <<env, keyFile, argDb, argUpdate, blocks, children, nextId, before, reqs,
           db_id, page_id, data, todo, i, url, parent_id>>
rvars == <<title, authors, text, repos, searches>>
fvars == <<tool, plumber, pypdf, tmpFile, tried, raw, meta>>
vars == <<pc, err, xvars, rvars, fvars>>

(***************************************************************************)
(* Bounds of the model.                                                    *)
(***************************************************************************)
MaxBatches == 2      \* block lists of up to MaxBatches full batches, +1 block
MaxExisting == 2     \* child blocks the updated page holds beforehand
MaxMatches == 2      \* GitHub links matched in the paper text
MaxItems == 2        \* items in one search response
MaxExtra == 2        \* characters beyond the truncation limit
MaxPages == 2        \* pages of the PDF seen by a library backend

(***************************************************************************)
(* Python string helpers on character sequences.                           *)
(***************************************************************************)
Whitespace == {" ", "\n", "\t"}

Range(s) == {s[k] : k \in 1..Len(s)}

RECURSIVE LStrip(_, _)
LStrip(s, chars) ==
    IF s # <<>> /\ Head(s) \in chars THEN LStrip(Tail(s), chars) ELSE s

RECURSIVE RStrip(_, _)
RStrip(s, chars) ==
    IF s # <<>> /\ s[Len(s)] \in chars
    THEN RStrip(SubSeq(s, 1, Len(s) - 1), chars) ELSE s

\* str.strip()
Strip(s) == RStrip(LStrip(s, Whitespace), Whitespace)

\* str.lower(), on the letters the model's titles use
LowerChar(c) ==
    CASE c = "P" -> "p" [] c = "A" -> "a" [] c = "E" -> "e"
      [] c = "R" -> "r" [] c = "S" -> "s" [] OTHER -> c

Lower(s) == [k \in 1..Len(s) |-> LowerChar(s[k])]

\* "".join(parts)
RECURSIVE Join(_)
Join(parts) == IF parts = <<>> THEN <<>> ELSE Head(parts) \o Join(Tail(parts))

(***************************************************************************)
(* notion_export.py                                                        *)
(***************************************************************************)
BatchSize == 100       \* range(0, len(blocks), 100) and blocks[i:i+100]
ListPageSize == 100    \* ?page_size=100 of the children listing

NoArg == [given |-> FALSE, val |-> ""]

\* Python truthiness of an optional command-line string (None and "" are falsy)
TruthyArg(a) == a.given /\ a.val # ""

MissingKey == "RuntimeError: No Notion API key found"
NoPages == "RuntimeError: No pages found in Notion workspace to create Papers database under"
HTTPError == "urllib.error.HTTPError"

\* mutant of get_api_key: the credential file is consulted first
get_api_key_FileFirst ==
    IF keyFile.exists
    THEN [ok |-> TRUE, key |-> Strip(keyFile.content)]
    ELSE IF env.set /\ env.val # <<>>
         THEN [ok |-> TRUE, key |-> env.val]
         ELSE [ok |-> FALSE, key |-> <<>>]

\* get_api_key(): [ok, key]; ok = FALSE is the RuntimeError
get_api_key ==
    IF env.set /\ env.val # <<>>
    THEN [ok |-> TRUE, key |-> env.val]
    ELSE IF keyFile.exists
         THEN [ok |-> TRUE, key |-> Strip(keyFile.content)]
         ELSE [ok |-> FALSE, key |-> <<>>]

\* the Authorization header: "Bearer " + key
Bearer(key) == <<"Bearer ">> \o key

\* One HTTP request as logged, with the reply it got: every field is present
\* on every entry (reply.ok = FALSE: urlopen raised).
Request(op, db, page, block, payload, reply) ==
    [op |-> op, db |-> db, page |-> page, block |-> block,
     auth |-> Bearer(get_api_key.key), children |-> payload, reply |-> reply]

Ok(body) == [ok |-> TRUE, body |-> body]
Failed == [ok |-> FALSE, body |-> <<>>]

Raise(e) ==
    /\ pc' = "failed"
    /\ err' = e

\* mutant of IsPapers: the comparison is case-sensitive
IsPapers_CaseSensitive(db) ==
    Strip(Join(db.title)) = <<"P", "a", "p", "e", "r", "s">>

\* title.strip().lower() == "papers", title = "".join(plain_text parts)
IsPapers(db) == Lower(Strip(Join(db.title))) = <<"p", "a", "p", "e", "r", "s">>

\* the for-loop over data["results"]: index of the first match, 0 if none
RECURSIVE FirstPapers(_, _)
FirstPapers(results, k) ==
    IF k > Len(results) THEN 0
    ELSE IF IsPapers(results[k]) THEN k
    ELSE FirstPapers(results, k + 1)

\* mutant of Batch: the slice is one block too long (blocks[i:i+101])
Batch_OneTooMany(bs, off) ==
    SubSeq(bs, off + 1,
           IF off + BatchSize + 1 < Len(bs) THEN off + BatchSize + 1 ELSE Len(bs))

\* blocks[i:i+100]
Batch(bs, off) ==
    SubSeq(bs, off + 1, IF off + BatchSize < Len(bs) THEN off + BatchSize ELSE Len(bs))

\* [{"object": "block", **b} for b in batch]
Payload(batch) == [k \in 1..Len(batch) |-> [object |-> "block", body |-> batch[k]]]

\* remote: the children a PATCH .../children appends, with fresh identifiers
Appended(cs, payload, first) ==
    cs \o [k \in 1..Len(payload) |-> [id |-> first + k - 1, body |-> payload[k].body]]

\* remote: position of the block with this identifier (0: no such block)
RECURSIVE PosOf(_, _, _)
PosOf(cs, id, k) ==
    IF k > Len(cs) THEN 0
    ELSE IF cs[k].id = id THEN k
    ELSE PosOf(cs, id, k + 1)

RemoveAt(cs, k) == SubSeq(cs, 1, k - 1) \o SubSeq(cs, k + 1, Len(cs))

\* where main goes once db_id is known (lines 219-224)
Dispatch == IF TruthyArg(argUpdate) THEN "update_page" ELSE "create_page"

\* the append loop's condition, evaluated on entry and after each batch
AppendOrDone(off, at) == IF off < Len(blocks) THEN at ELSE "done"

\* ---- inputs and environment responses of the exporter
Glyphs == <<"a", "b", "c">>

\* a block list of n blocks; consecutive bodies differ
MkBlocks(n) == [k \in 1..n |-> Glyphs[(k % 3) + 1]]

BlockCounts ==
    {0, 1} \cup {b * BatchSize + d : b \in 1..MaxBatches, d \in {-1, 0, 1}}

\* the page's children before the update: identifiers 1..n
Existing(n) == [k \in 1..n |-> [id |-> k, body |-> "old"]]

EnvValues ==
    {[set |-> FALSE, val |-> <<>>], [set |-> TRUE, val |-> <<>>],
     [set |-> TRUE, val |-> <<"e", "k">>]}

KeyFiles ==
    {[exists |-> FALSE, content |-> <<>>],
     [exists |-> TRUE, content |-> <<"f", "k", "\n">>]}

DbArgs == {NoArg, [given |-> TRUE, val |-> ""], [given |-> TRUE, val |-> "db-cli"]}

UpdateArgs == {NoArg, [given |-> TRUE, val |-> "page-u"]}

\* results of the database search: objects with an id and title parts
DbOther == [id |-> "db-other", title |-> <<<<"P", "a", "p", "e", "r", "s", "2">>>>]
DbUpper == [id |-> "db-upper", title |-> <<<<"P", "A", "P">>, <<"E", "R", "S">>>>]
DbPadded == [id |-> "db-padded", title |-> <<<<" ", "P", "a", "p", "e", "r", "s", "\n">>>>]
DbUntitled == [id |-> "db-untitled", title |-> <<>>]

DbSearchResponses ==
    {<<>>, <<DbOther>>, <<DbUntitled>>, <<DbUpper>>, <<DbPadded>>,
     <<DbOther, DbUpper>>, <<DbUpper, DbPadded>>}

PageSearchResponses == {<<>>, <<"p1">>, <<"p2", "p1">>}

NoData == [results |-> <<>>, has_more |-> FALSE, next_cursor |-> 0]

\* ---- main(), lines 204-224
Main ==
    /\ pc = "main"
    /\ IF TruthyArg(argDb)
       THEN /\ db_id' = argDb.val
            /\ pc' = Dispatch
       ELSE /\ db_id' = db_id
            /\ pc' = "find_or_create_papers_db"
    /\ UNCHANGED <<err, env, keyFile, argDb, argUpdate, blocks, children, nextId, before,
                   reqs, page_id, data, todo, i, url, parent_id, rvars, fvars>>

\* ---- find_or_create_papers_db(), lines 29-52: key, database search, title loop
SearchDb ==
    /\ pc = "find_or_create_papers_db"
    /\ IF ~get_api_key.ok
       THEN /\ Raise(MissingKey)
            /\ UNCHANGED <<reqs, db_id>>
       ELSE \/ /\ reqs' = Append(reqs, Request("search_database", "", "", 0, <<>>, Failed))
               /\ Raise(HTTPError)
               /\ db_id' = db_id
            \/ \E results \in DbSearchResponses :
                  LET k == FirstPapers(results, 1) IN
                  /\ reqs' = Append(reqs, Request("search_database", "", "", 0, <<>>, Ok(results)))
                  /\ err' = err
                  /\ IF k > 0
                     THEN /\ db_id' = results[k].id
                          /\ pc' = Dispatch
                     ELSE /\ db_id' = db_id
                          /\ pc' = "find_parent"
    /\ UNCHANGED <<env, keyFile, argDb, argUpdate, blocks, children, nextId, before,
                   page_id, data, todo, i, url, parent_id, rvars, fvars>>

\* ---- lines 54-70: page search, first page becomes the parent
SearchPage ==
    /\ pc = "find_parent"
    /\ \/ /\ reqs' = Append(reqs, Request("search_page", "", "", 0, <<>>, Failed))
          /\ Raise(HTTPError)
          /\ parent_id' = parent_id
       \/ \E pages \in PageSearchResponses :
             /\ reqs' = Append(reqs, Request("search_page", "", "", 0, <<>>, Ok(pages)))
             /\ IF pages = <<>>
                THEN /\ Raise(NoPages)
                     /\ parent_id' = parent_id
                ELSE /\ parent_id' = pages[1]
                     /\ pc' = "create_db"
                     /\ err' = err
    /\ UNCHANGED <<env, keyFile, argDb, argUpdate, blocks, children, nextId, before,
                   db_id, page_id, data, todo, i, url, rvars, fvars>>

\* ---- lines 72-102: create the Papers database under parent_id
CreateDb ==
    /\ pc = "create_db"
    /\ \/ /\ reqs' = Append(reqs, Request("create_database", "", parent_id, 0, <<>>, Failed))
          /\ Raise(HTTPError)
          /\ db_id' = db_id
       \/ /\ reqs' = Append(reqs, Request("create_database", "", parent_id, 0, <<>>, Ok(<<>>)))
          /\ db_id' = "db-new"
          /\ pc' = Dispatch
          /\ err' = err
    /\ UNCHANGED <<env, keyFile, argDb, argUpdate, blocks, children, nextId, before,
                   page_id, data, todo, i, url, parent_id, rvars, fvars>>

\* ---- create_page(), lines 105-148: key, then POST /v1/pages
CreatePage ==
    /\ pc = "create_page"
    /\ IF ~get_api_key.ok
       THEN /\ Raise(MissingKey)
            /\ UNCHANGED <<reqs, page_id, i>>
       ELSE \/ /\ reqs' = Append(reqs, Request("create_page", db_id, "", 0, <<>>, Failed))
               /\ Raise(HTTPError)
               /\ UNCHANGED <<page_id, i>>
            \/ /\ reqs' = Append(reqs, Request("create_page", db_id, "", 0, <<>>, Ok(<<>>)))
               /\ page_id' = "page-new"
               /\ i' = 0
               /\ pc' = AppendOrDone(0, "create_append")
               /\ err' = err
    /\ UNCHANGED <<env, keyFile, argDb, argUpdate, blocks, children, nextId, before,
                   db_id, data, todo, url, parent_id, rvars, fvars>>

\* one iteration of an append loop: PATCH /v1/blocks/{page_id}/children
AppendBatch(at) ==
    LET payload == Payload(Batch(blocks, i)) IN
    /\ \/ /\ reqs' = Append(reqs, Request("append", "", page_id, 0, payload, Failed))
          /\ Raise(HTTPError)
          /\ UNCHANGED <<children, nextId, i>>
       \/ /\ reqs' = Append(reqs, Request("append", "", page_id, 0, payload, Ok(<<>>)))
          /\ children' = Appended(children, payload, nextId)
          /\ nextId' = nextId + Len(payload)
          /\ i' = i + BatchSize
          /\ pc' = AppendOrDone(i + BatchSize, at)
          /\ err' = err
    /\ UNCHANGED <<env, keyFile, argDb, argUpdate, blocks, before, db_id, page_id,
                   data, todo, url, parent_id, rvars, fvars>>

\* ---- create_page(), lines 150-161
CreateAppend ==
    /\ pc = "create_append"
    /\ AppendBatch("create_append")

\* ---- update_page(), lines 164-174: key, headers, first listing url
UpdatePage ==
    /\ pc = "update_page"
    /\ IF ~get_api_key.ok
       THEN /\ Raise(MissingKey)
            /\ UNCHANGED <<page_id, url>>
       ELSE /\ page_id' = argUpdate.val
            /\ url' = 0
            /\ pc' = "update_list"
            /\ err' = err
    /\ UNCHANGED <<env, keyFile, argDb, argUpdate, blocks, children, nextId, before,
                   reqs, db_id, data, todo, i, parent_id, rvars, fvars>>

\* after the for-loop over data["results"]: lines 188-190, then the loop at 193
AfterDeletes(d) ==
    IF d.has_more
    THEN /\ url' = d.next_cursor
         /\ pc' = "update_list"
         /\ i' = i
    ELSE /\ url' = url
         /\ i' = 0
         /\ pc' = AppendOrDone(0, "update_append")

\* ---- lines 176-178: GET the next listing page of the children
\* The store answers with at most page_size children from the cursor on.
ListChildren ==
    /\ pc = "update_list"
    /\ LET from == IF url = 0 THEN 1 ELSE PosOf(children, url, 1)
           left == Len(children) - from + 1
       IN \/ /\ reqs' = Append(reqs, Request("list", "", page_id, url, <<>>, Failed))
             /\ Raise(HTTPError)
             /\ UNCHANGED <<data, todo, url, i>>
          \/ /\ from > 0
             /\ left <= 0
             /\ reqs' = Append(reqs, Request("list", "", page_id, url, <<>>, Ok(<<>>)))
             /\ data' = NoData
             /\ todo' = <<>>
             /\ err' = err
             /\ AfterDeletes(NoData)
          \/ /\ from > 0
             /\ \E n \in 1..ListPageSize :
                   /\ n <= left
                   /\ LET d == [results |-> SubSeq(children, from, from + n - 1),
                                has_more |-> n < left,
                                next_cursor |-> IF n < left THEN children[from + n].id ELSE 0]
                      IN /\ reqs' = Append(reqs, Request("list", "", page_id, url, <<>>, Ok(d.results)))
                         /\ data' = d
                         /\ todo' = d.results
                         /\ pc' = "update_delete"
                         /\ err' = err
                         /\ UNCHANGED <<url, i>>
    /\ UNCHANGED <<env, keyFile, argDb, argUpdate, blocks, children, nextId, before,
                   before, db_id, page_id, parent_id, rvars, fvars>>

\* mutant of DeleteBlock: without the try/except a failed delete propagates
DeleteBlock_Propagating ==
    /\ pc = "update_delete"
    /\ todo # <<>>
    /\ LET block == Head(todo) IN
       \/ /\ reqs' = Append(reqs, Request("delete", "", "", block.id, <<>>, Ok(<<>>)))
          /\ children' = RemoveAt(children, PosOf(children, block.id, 1))
          /\ todo' = Tail(todo)
          /\ err' = err
          /\ IF Tail(todo) = <<>>
             THEN AfterDeletes(data)
             ELSE /\ pc' = pc
                  /\ UNCHANGED <<url, i>>
       \/ /\ reqs' = Append(reqs, Request("delete", "", "", block.id, <<>>, Failed))
          /\ Raise(HTTPError)
          /\ UNCHANGED <<children, todo, url, i>>
    /\ UNCHANGED <<env, keyFile, argDb, argUpdate, blocks, nextId, before, db_id,
                   page_id, data, parent_id, rvars, fvars>>

\* ---- lines 179-190: DELETE one listed block; a failure is swallowed
DeleteBlock ==
    /\ pc = "update_delete"
    /\ todo # <<>>
    /\ LET block == Head(todo) IN
       \/ /\ reqs' = Append(reqs, Request("delete", "", "", block.id, <<>>, Ok(<<>>)))
          /\ children' = RemoveAt(children, PosOf(children, block.id, 1))
       \/ /\ reqs' = Append(reqs, Request("delete", "", "", block.id, <<>>, Failed))
          /\ children' = children
    /\ todo' = Tail(todo)
    /\ err' = err
    /\ IF Tail(todo) = <<>>
       THEN AfterDeletes(data)
       ELSE /\ pc' = pc
            /\ UNCHANGED <<url, i>>
    /\ UNCHANGED <<env, keyFile, argDb, argUpdate, blocks, nextId, before, db_id,
                   page_id, data, parent_id, rvars, fvars>>

\* ---- update_page(), lines 192-201
UpdateAppend ==
    /\ pc = "update_append"
    /\ AppendBatch("update_append")

IdleFind ==
    /\ title = <<>> /\ authors = <<>> /\ text = <<>>
    /\ repos = <<>> /\ searches = <<>>

NoText == [set |-> FALSE, text |-> <<>>]

IdleFetch ==
    /\ tool = [kind |-> "FileNotFoundError", rc |-> 0, out |-> <<>>]
    /\ plumber = [kind |-> "ImportError", pages |-> <<>>]
    /\ pypdf = [kind |-> "ImportError", pages |-> <<>>]
    /\ tmpFile = "none" /\ tried = <<>>
    /\ raw = NoText
    /\ meta = NoText

InitExport ==
    /\ pc = "main"
    /\ err = ""
    /\ env \in EnvValues
    /\ keyFile \in KeyFiles
    /\ argDb \in DbArgs
    /\ argUpdate \in UpdateArgs
    /\ blocks \in {MkBlocks(n) : n \in BlockCounts}
    /\ \E n \in 0..MaxExisting :
          /\ (n > 0 => TruthyArg(argUpdate))
          /\ children = Existing(n)
          /\ before = Existing(n)
          /\ nextId = n + 1
    /\ reqs = <<>>
    /\ db_id = ""
    /\ page_id = ""
    /\ data = NoData
    /\ todo = <<>>
    /\ i = 0
    /\ url = 0
    /\ parent_id = ""
    /\ IdleFind
    /\ IdleFetch

NextExport ==
    \/ Main
    \/ SearchDb
    \/ SearchPage
    \/ CreateDb
    \/ CreatePage
    \/ CreateAppend
    \/ UpdatePage
    \/ ListChildren
    \/ DeleteBlock
    \/ UpdateAppend

SpecExport == InitExport /\ [][NextExport]_vars

(***************************************************************************)
(* Properties of the exporter (checked under SpecExport).                  *)
(***************************************************************************)
Updating == TruthyArg(argUpdate)

OfOp(op) == SelectSeq(reqs, LAMBDA r : r.op = op)

Bodies(cs) == [k \in 1..Len(cs) |-> cs[k].body]

\* the logged append payloads, concatenated in request order
RECURSIVE Flatten(_)
Flatten(rs) ==
    IF rs = <<>> THEN <<>> ELSE Bodies(Head(rs).children) \o Flatten(Tail(rs))

Ceil(n, d) == (n + d - 1) \div d

Papers == <<"p", "a", "p", "e", "r", "s">>

\* C1 (as claimed): whenever update_page returns normally, the page's ordered
\* child blocks are exactly the supplied blocks, whatever the delete requests
\* answered.
C1_FullReplace ==
    (pc = "done" /\ Updating) => Bodies(children) = blocks

\* C2: the append requests issued so far each carry between 1 and 100 tagged
\* blocks and concatenate to a prefix of the block list; when create_page or
\* update_page has returned, there are exactly ceil(N/100) of them and they
\* concatenate to the whole list, in order.
C2_Batching ==
    LET appends == OfOp("append")
        flat == Flatten(appends)
    IN /\ \A k \in 1..Len(appends) :
             /\ Len(appends[k].children) \in 1..BatchSize
             /\ \A j \in 1..Len(appends[k].children) :
                   appends[k].children[j].object = "block"
       /\ Len(flat) <= Len(blocks)
       /\ flat = SubSeq(blocks, 1, Len(flat))
       /\ pc = "done" =>
             /\ Len(appends) = Ceil(Len(blocks), BatchSize)
             /\ flat = blocks

\* C2 witness: an update and a create that returned after appending an exact
\* multiple of the batch size differ only in the mode; this is the update.
C2_Witness ==
    /\ pc = "done"
    /\ Updating
    /\ Len(blocks) = MaxBatches * BatchSize
    /\ Len(OfOp("append")) = MaxBatches

\* C3 (as claimed): whenever the environment variable is present, its value
\* is the credential of every request; the file is used only when it is not
\* present; with neither present no request is issued and the tool fails with
\* the credential-missing error.
C3_EnvWheneverPresent ==
    /\ env.set => \A k \in 1..Len(reqs) : reqs[k].auth = <<"Bearer ">> \o env.val
    /\ (~env.set /\ ~keyFile.exists) =>
          /\ reqs = <<>>
          /\ pc # "done"
          /\ pc = "failed" => err = MissingKey

\* C3 (amended): the environment variable's value is used whenever it is set
\* to a non-empty string; otherwise (unset or empty) the stripped content of
\* the credential file is used; when the variable is unset or empty and there
\* is no file, no request is ever issued and the tool fails with the
\* credential-missing error, on the create, update and auto-discovery paths.
C3_CredentialResolution ==
    LET fromEnv == env.set /\ env.val # <<>> IN
    /\ fromEnv => \A k \in 1..Len(reqs) : reqs[k].auth = <<"Bearer ">> \o env.val
    /\ (~fromEnv /\ keyFile.exists) =>
          \A k \in 1..Len(reqs) :
             reqs[k].auth = <<"Bearer ">> \o Strip(keyFile.content)
    /\ (~fromEnv /\ ~keyFile.exists) =>
          /\ reqs = <<>>
          /\ pc \notin {"done", "find_parent", "create_db", "create_append",
                        "update_list", "update_delete", "update_append"}
          /\ pc = "failed" => err = MissingKey

\* C3 witness: both sources hold a credential and the tool has issued requests
\* through auto-discovery and the update path.
C3_Witness ==
    /\ env.set /\ env.val # <<>> /\ keyFile.exists
    /\ pc = "done"
    /\ Updating
    /\ OfOp("search_database") # <<>>
    /\ OfOp("list") # <<>>

\* the three outcomes of auto-discovery, with "is titled Papers" as a parameter
Discovery(titled(_)) ==
    LET dbs == OfOp("search_database")
        pgs == OfOp("search_page")
        new == OfOp("create_database")
        results == dbs[1].reply.body
        pages == pgs[1].reply.body
        found == \E k \in 1..Len(results) : titled(results[k])
        first == CHOOSE k \in 1..Len(results) :
                    titled(results[k]) /\ \A j \in 1..(k - 1) : ~titled(results[j])
    IN /\ Len(dbs) <= 1 /\ Len(pgs) <= 1 /\ Len(new) <= 1
       /\ TruthyArg(argDb) => (dbs = <<>> /\ pgs = <<>> /\ new = <<>>)
       /\ (dbs # <<>> /\ dbs[1].reply.ok /\ found) =>
             /\ db_id = results[first].id
             /\ pgs = <<>>
             /\ new = <<>>
       /\ (dbs # <<>> /\ dbs[1].reply.ok /\ ~found) =>
             /\ pc # "find_parent" => Len(pgs) = 1
             /\ (pgs # <<>> /\ pgs[1].reply.ok /\ pages # <<>> /\ pc # "create_db") =>
                   /\ Len(new) = 1
                   /\ new[1].page = pages[1]
                   /\ new[1].reply.ok => db_id = "db-new"
             /\ (pgs # <<>> /\ pgs[1].reply.ok /\ pages = <<>>) =>
                   /\ pc = "failed"
                   /\ err = NoPages
                   /\ new = <<>>

\* C5 (as claimed): the database is reused exactly when a returned title
\* case-insensitively equals "Papers"; otherwise one database is created under
\* the first page found, or the tool fails when no page is found.
C5_DiscoveryExactTitle ==
    Discovery(LAMBDA db : Lower(Join(db.title)) = Papers)

\* C5 (amended): the title is compared after its leading and trailing
\* whitespace is stripped: if the database search returns an object whose
\* stripped title case-insensitively equals "Papers", the identifier of the
\* first such object is returned and neither a page search nor a database
\* creation is issued; otherwise, if the page search returns at least one page,
\* exactly one database-creation request is issued, with the first page
\* returned as parent; if the page search returns no page the tool fails with
\* the configuration error and issues no creation request.
C5_Discovery ==
    Discovery(LAMBDA db : Lower(Strip(Join(db.title))) = Papers)

\* C5 witness: no database matched, two pages were returned and the database
\* was created under the first of them.
C5_Witness ==
    /\ pc = "done"
    /\ Len(OfOp("create_database")) = 1
    /\ OfOp("create_database")[1].reply.ok
    /\ OfOp("search_database")[1].reply.body = <<DbOther>>
    /\ Len(OfOp("search_page")[1].reply.body) = 2
    /\ db_id = "db-new"

\* C8: a failed delete request is never the request that ended the tool; once
\* update_page has left its listing loop a delete has been attempted for every
\* child the page had, in listing order, whichever of them failed; and when it
\* returns, the new blocks were appended after the last delete.
C8_BestEffort ==
    LET deletes == OfOp("delete")
        last == reqs[Len(reqs)]
    IN /\ (pc = "failed" /\ reqs # <<>>) => last.op # "delete"
       /\ (Updating /\ pc \in {"update_append", "done"}) =>
             [k \in 1..Len(deletes) |-> deletes[k].block]
                = [k \in 1..Len(before) |-> before[k].id]
       /\ (Updating /\ pc = "done") =>
             /\ Len(OfOp("append")) = Ceil(Len(blocks), BatchSize)
             /\ \A k \in 1..Len(reqs) :
                   reqs[k].op = "delete" =>
                      \A j \in 1..Len(reqs) : reqs[j].op = "append" => k < j

\* C8 witness: the first delete failed, the listing needed more than one page,
\* the remaining children were still deleted and the new blocks appended.
C8_Witness ==
    /\ pc = "done"
    /\ Updating
    /\ Len(before) = MaxExisting
    /\ Len(OfOp("list")) >= 2
    /\ ~OfOp("delete")[1].reply.ok
    /\ OfOp("delete")[Len(before)].reply.ok
    /\ OfOp("append") # <<>>

(***************************************************************************)
(* find_repo.py                                                            *)
(***************************************************************************)
IdleExport ==
    /\ env = [set |-> FALSE, val |-> <<>>]
    /\ keyFile = [exists |-> FALSE, content |-> <<>>]
    /\ argDb = NoArg /\ argUpdate = NoArg
    /\ blocks = <<>> /\ children = <<>> /\ nextId = 1 /\ before = <<>>
    /\ reqs = <<>> /\ db_id = "" /\ page_id = "" /\ data = NoData
    /\ todo = <<>> /\ i = 0 /\ url = 0 /\ parent_id = ""

\* The paper text is a sequence of tokens: a link token is one occurrence of
\* https?://github.com/<owner>/<repo>, path being the regex's captured group
\* (which may end in "." but, by the character class, not in "," ";" ")").
Link(path) == [link |-> TRUE, path |-> path]
Word == [link |-> FALSE, path |-> <<"w">>]

\* re.findall(pattern, text)
RECURSIVE FindAll(_)
FindAll(t) ==
    IF t = <<>> THEN <<>>
    ELSE IF Head(t).link THEN <<Head(t).path>> \o FindAll(Tail(t))
    ELSE FindAll(Tail(t))

\* f"https://github.com/{m}"
GithubUrl(m) == <<"https://github.com/">> \o m

\* the loop of find_github_urls_in_text: rstrip, skip what was seen, keep order
RECURSIVE Dedup(_, _)
Dedup(matches, seen) ==
    IF matches = <<>> THEN <<>>
    ELSE LET m == RStrip(Head(matches), {".", ",", ";", ")"}) IN
         IF m \in seen
         THEN Dedup(Tail(matches), seen)
         ELSE <<GithubUrl(m)>> \o Dedup(Tail(matches), seen \cup {m})

find_github_urls_in_text(t) == Dedup(FindAll(t), {})

\* repos.append({"url": url, "stars": None, "description": "", "source": "paper_text"})
FromText(urls) ==
    [k \in 1..Len(urls) |->
        [url |-> urls[k], stars |-> -1, description |-> "", source |-> "paper_text"]]

\* search_github(): the items of a good response, [] when anything raised
search_github(resp) ==
    IF resp.kind = "ok"
    THEN [k \in 1..Len(resp.items) |->
            [url |-> resp.items[k].html_url, stars |-> resp.items[k].stargazers_count,
             description |-> "", source |-> "github_search"]]
    ELSE <<>>

\* mutant of NewOnly: the results are appended unfiltered
NewOnly_All(results, existing) == results

\* lines 84-87: the results whose url is not among those present beforehand
NewOnly(results, existing) ==
    SelectSeq(results, LAMBDA r : r.url \notin existing)

\* authors.split(",")[0]
RECURSIVE BeforeComma(_)
BeforeComma(s) ==
    IF s = <<>> \/ Head(s) = "," THEN <<>> ELSE <<Head(s)>> \o BeforeComma(Tail(s))

\* s.split()[-1] for a stripped, non-empty s: what follows its last whitespace
RECURSIVE LastWord(_)
LastWord(s) ==
    IF \E k \in 1..Len(s) : s[k] \in Whitespace
    THEN LastWord(Tail(s))
    ELSE s

\* authors.split(",")[0].strip().split(): empty exactly when [-1] raises
FirstAuthor(a) == Strip(BeforeComma(a))

\* ---- inputs and search responses
Titles == {<<>>, <<"T">>}

AuthorLists ==
    {<<>>, <<"A", " ", "L">>, <<"A", " ", "L", ",", " ", "B">>, <<" ">>, <<",", "B">>}

Paths == {<<"o", "/", "r">>, <<"o", "/", "r", ".">>, <<"o", "/", "q">>}

Tokens == {Link(p) : p \in Paths} \cup {Word}

SeqsUpTo(S, n) == UNION {[1..k -> S] : k \in 0..n}

Texts == SeqsUpTo(Tokens, MaxMatches)

Items ==
    {[html_url |-> GithubUrl(<<"o", "/", "r">>), stargazers_count |-> 5],
     [html_url |-> GithubUrl(<<"o", "/", "q">>), stargazers_count |-> 3]}

\* a search ends in a response with items, or raises inside search_github
SearchResponses ==
    {[kind |-> "ok", items |-> its] : its \in SeqsUpTo(Items, MaxItems)}
       \cup {[kind |-> k, items |-> <<>>] : k \in {"URLError", "HTTPError", "malformed"}}

\* ---- find_repo(), lines 66-72
ScanText ==
    /\ pc = "scan_text"
    /\ repos' = IF text # <<>> THEN FromText(find_github_urls_in_text(text)) ELSE <<>>
    /\ pc' = "search_title"
    /\ UNCHANGED <<err, title, authors, text, searches, xvars, fvars>>

\* mutant of SearchTitle: the exception of a failed search reaches find_repo
SearchTitle_Propagating ==
    /\ pc = "search_title"
    /\ IF title # <<>>
       THEN \E resp \in SearchResponses :
               /\ searches' = Append(searches, [query |-> title, resp |-> resp])
               /\ IF resp.kind = "ok"
                  THEN /\ repos' = repos \o search_github(resp)
                       /\ pc' = "search_author"
                       /\ err' = err
                  ELSE /\ Raise(resp.kind)
                       /\ repos' = repos
       ELSE /\ pc' = "search_author"
            /\ UNCHANGED <<repos, searches, err>>
    /\ UNCHANGED <<title, authors, text, xvars, fvars>>

\* ---- lines 74-77
SearchTitle ==
    /\ pc = "search_title"
    /\ IF title # <<>>
       THEN \E resp \in SearchResponses :
               /\ searches' = Append(searches, [query |-> title, resp |-> resp])
               /\ repos' = repos \o search_github(resp)
       ELSE UNCHANGED <<repos, searches>>
    /\ pc' = "search_author"
    /\ UNCHANGED <<err, title, authors, text, xvars, fvars>>

\* ---- lines 79-89
SearchAuthor ==
    /\ pc = "search_author"
    /\ IF title # <<>> /\ authors # <<>>
       THEN IF FirstAuthor(authors) = <<>>
            THEN /\ Raise("IndexError")
                 /\ UNCHANGED <<repos, searches>>
            ELSE \E resp \in SearchResponses :
                    LET first_author == LastWord(FirstAuthor(authors))
                        results == search_github(resp)
                        existing == {repos[k].url : k \in 1..Len(repos)}
                    IN /\ searches' = Append(searches,
                             [query |-> title \o <<" ">> \o first_author, resp |-> resp])
                       /\ repos' = repos \o NewOnly(results, existing)
                       /\ pc' = "done"
                       /\ err' = err
       ELSE /\ pc' = "done"
            /\ UNCHANGED <<err, repos, searches>>
    /\ UNCHANGED <<title, authors, text, xvars, fvars>>

InitFind ==
    /\ pc = "scan_text"
    /\ err = ""
    /\ title \in Titles
    /\ authors \in AuthorLists
    /\ text \in Texts
    /\ repos = <<>>
    /\ searches = <<>>
    /\ IdleExport
    /\ IdleFetch

NextFind ==
    \/ ScanText
    \/ SearchTitle
    \/ SearchAuthor

SpecFind == InitFind /\ [][NextFind]_vars

(***************************************************************************)
(* Properties of the finder (checked under SpecFind).                      *)
(***************************************************************************)
Urls(rs) == [k \in 1..Len(rs) |-> rs[k].url]

NoRepeat(s) == \A a, b \in 1..Len(s) : a # b => s[a] # s[b]

\* the candidates of the text scan, as find_repo was called
TextPart == IF text # <<>> THEN FromText(find_github_urls_in_text(text)) ELSE <<>>

\* number of candidates in repos before the title+author step
BeforeAuthorStep ==
    Len(TextPart) + (IF title # <<>> /\ searches # <<>>
                     THEN Len(search_github(searches[1].resp)) ELSE 0)

\* C4 (as claimed): the returned candidate list holds no two entries with the
\* same URL.
C4_NoDuplicateUrls ==
    pc = "done" => NoRepeat(Urls(repos))

\* C4 (amended): in the returned list the entries of the paper-text scan are
\* pairwise distinct by URL, and no entry added by the title+author step has
\* the URL of an entry added by an earlier step; the results of the plain
\* title search are appended as returned, so an URL may repeat between the
\* text scan and the title search, or within one search response.
C4_DedupAgainstEarlierSteps ==
    pc = "done" =>
       /\ NoRepeat(Urls(TextPart))
       /\ SubSeq(repos, 1, Len(TextPart)) = TextPart
       /\ \A a \in 1..BeforeAuthorStep :
             \A b \in (BeforeAuthorStep + 1)..Len(repos) : repos[a].url # repos[b].url

\* C4 witness: the title+author search returned an URL the list already held
\* and a new one; only the new one was added.
C4_Witness ==
    /\ pc = "done"
    /\ Len(searches) = 2
    /\ TextPart # <<>>
    /\ Len(searches[2].resp.items) = 2
    /\ searches[2].resp.items[1].html_url = TextPart[1].url
    /\ Len(repos) = BeforeAuthorStep + 1

\* C6: find_repo never ends with the exception of a search (the only exception
\* that ends it is the IndexError of an author list without a first name
\* token), and a search that failed contributes nothing: the list returned is
\* the text candidates, then the title results if that search succeeded, then
\* the not yet present title+author results if that search succeeded.
C6_FailedSearchIsEmpty ==
    /\ pc = "failed" => (err = "IndexError" /\ Strip(BeforeComma(authors)) = <<>>)
    /\ \A k \in 1..Len(searches) :
          searches[k].resp.kind # "ok" =>
             LET titleOk == k = 2 /\ searches[1].resp.kind = "ok"
                 authorOk == k = 1 /\ Len(searches) = 2 /\ searches[2].resp.kind = "ok"
                 fromTitle == IF titleOk THEN search_github(searches[1].resp) ELSE <<>>
                 seen == Range(Urls(TextPart \o fromTitle))
                 fromAuthor ==
                    IF authorOk
                    THEN SelectSeq(search_github(searches[2].resp),
                                   LAMBDA r : r.url \notin seen)
                    ELSE <<>>
             IN /\ pc = "done" => repos = TextPart \o fromTitle \o fromAuthor
                /\ pc = "search_author" => repos = TextPart
                /\ pc = "failed" => repos = TextPart

\* C6 witness: the title search failed, the title+author search succeeded, and
\* find_repo returned the text candidate followed by the new search result.
C6_Witness ==
    /\ pc = "done"
    /\ Len(searches) = 2
    /\ searches[1].resp.kind = "HTTPError"
    /\ searches[2].resp.kind = "ok"
    /\ Len(TextPart) = 1
    /\ Len(repos) = 2

(***************************************************************************)
(* fetch_paper.py                                                          *)
(* A text is a run-length encoded string: a sequence of runs [c, n], n > 0, *)
(* adjacent runs of different characters, so equal strings are equal texts *)
(* and a text of 100,000 characters is a handful of runs.                  *)
(***************************************************************************)
Limit == 100000     \* if len(text) > 100000: text = text[:100000] + ...

Run(c, n) == IF n > 0 THEN <<[c |-> c, n |-> n]>> ELSE <<>>

\* len(t)
RECURSIVE TLen(_)
TLen(t) == IF t = <<>> THEN 0 ELSE Head(t).n + TLen(Tail(t))

\* a + b
TConcat(a, b) ==
    IF a = <<>> THEN b
    ELSE IF b = <<>> THEN a
    ELSE IF a[Len(a)].c = b[1].c
         THEN SubSeq(a, 1, Len(a) - 1) \o Run(b[1].c, a[Len(a)].n + b[1].n) \o Tail(b)
         ELSE a \o b

\* t[:k]
RECURSIVE TTake(_, _)
TTake(t, k) ==
    IF t = <<>> \/ k <= 0 THEN <<>>
    ELSE IF Head(t).n >= k THEN Run(Head(t).c, k)
    ELSE <<Head(t)>> \o TTake(Tail(t), k - Head(t).n)

\* t[k:]
RECURSIVE TDrop(_, _)
TDrop(t, k) ==
    IF t = <<>> \/ k <= 0 THEN t
    ELSE IF Head(t).n > k THEN Run(Head(t).c, Head(t).n - k) \o Tail(t)
    ELSE TDrop(Tail(t), k - Head(t).n)

\* the text of a Python string literal given character by character
RECURSIVE FromChars(_)
FromChars(cs) ==
    IF cs = <<>> THEN <<>> ELSE TConcat(Run(Head(cs), 1), FromChars(Tail(cs)))

\* bool(t.strip())
NonBlank(t) == \E k \in 1..Len(t) : t[k].c \notin Whitespace

\* "\n\n".join(parts)
RECURSIVE TJoin(_)
TJoin(parts) ==
    IF parts = <<>> THEN <<>>
    ELSE IF Len(parts) = 1 THEN parts[1]
    ELSE TConcat(TConcat(parts[1], Run("\n", 2)), TJoin(Tail(parts)))

\* "\n\n[... truncated at 100K chars ...]"
MarkerChars ==
    <<"\n", "\n", "[", ".", ".", ".", " ", "t", "r", "u", "n", "c", "a",
      "t", "e", "d", " ", "a", "t", " ", "1", "0", "0", "K", " ", "c", "h",
      "a", "r", "s", " ", ".", ".", ".", "]">>

Marker == FromChars(MarkerChars)

\* "[Could not extract PDF text. Install pdftotext (poppler) or pdfplumber.]"
PlaceholderChars ==
    <<"[", "C", "o", "u", "l", "d", " ", "n", "o", "t", " ", "e", "x", "t",
      "r", "a", "c", "t", " ", "P", "D", "F", " ", "t", "e", "x", "t", ".",
      " ", "I", "n", "s", "t", "a", "l", "l", " ", "p", "d", "f", "t", "o",
      "t", "e", "x", "t", " ", "(", "p", "o", "p", "p", "l", "e", "r", ")",
      " ", "o", "r", " ", "p", "d", "f", "p", "l", "u", "m", "b", "e", "r",
      ".", "]">>

Placeholder == FromChars(PlaceholderChars)

\* mutant of Truncate: the comparison is >= instead of >
Truncate_AtLimit(t) ==
    IF TLen(t) >= Limit THEN TConcat(TTake(t, Limit), Marker) ELSE t

\* lines 137-138 of fetch_paper
Truncate(t) ==
    IF TLen(t) > Limit THEN TConcat(TTake(t, Limit), Marker) ELSE t

\* pdfplumber, lines 87-93: pages without text are skipped
PlumberText(pages) == TJoin(SelectSeq(pages, LAMBDA t : t # <<>>))

\* PyPDF2, line 101: page.extract_text() or ""
PyPdfText(pages) == TJoin(pages)

\* ---- what the machine and the PDF make the backends do
StdoutTexts ==
    {<<>>, Run(" ", 3), Run("a", 1)}
       \cup {Run("a", Limit + d) : d \in -1..MaxExtra}
       \cup {Run("a", Limit - 1) \o Run("b", d) : d \in 1..MaxExtra}

ToolOutcomes ==
    {[kind |-> k, rc |-> 0, out |-> <<>>] :
        k \in {"FileNotFoundError", "TimeoutExpired", "PermissionError"}}
       \cup {[kind |-> "exit", rc |-> rc, out |-> t] : rc \in {0, 1}, t \in StdoutTexts}

PageTexts == {<<>>, Run("a", 1), Run("b", Limit)}

LibOutcomes(broken) ==
    {[kind |-> k, pages |-> <<>>] : k \in {"ImportError", broken}}
       \cup {[kind |-> "pages", pages |-> ps] : ps \in SeqsUpTo(PageTexts, MaxPages)}

\* ---- fetch_paper(), lines 110-125: identifier, metadata
Resolve ==
    /\ pc = "resolve"
    /\ \/ /\ pc' = "download"      \* arXiv identifier, metadata fetched
          /\ err' = err
       \/ Raise("URLError")        \* arXiv identifier, fetch_arxiv_metadata raised
       \/ /\ pc' = "download"      \* no identifier: a direct PDF url
          /\ err' = err
    /\ UNCHANGED <<xvars, rvars, fvars>>

\* ---- lines 127-132: the temporary file is created, then the PDF is fetched
Download ==
    /\ pc = "download"
    /\ tmpFile' = "exists"
    /\ \/ /\ pc' = "pdftotext"
          /\ err' = err
       \/ Raise("URLError")
    /\ UNCHANGED <<tool, plumber, pypdf, tried, raw, meta, xvars, rvars>>

\* lines 136-143: truncate, store, unlink in the finally clause, return
Return(t) ==
    /\ raw' = [set |-> TRUE, text |-> t]
    /\ meta' = [set |-> TRUE, text |-> Truncate(t)]
    /\ tmpFile' = "removed"
    /\ pc' = "done"
    /\ err' = err

\* an exception of extract_text_from_pdf: the finally clause unlinks, it propagates
Propagate(e) ==
    /\ Raise(e)
    /\ tmpFile' = "removed"
    /\ UNCHANGED <<raw, meta>>

\* ---- extract_text_from_pdf(), lines 73-82
TryTool ==
    /\ pc = "pdftotext"
    /\ tried' = Append(tried, "pdftotext")
    /\ IF tool.kind = "exit"
       THEN IF tool.rc = 0 /\ NonBlank(tool.out)
            THEN Return(tool.out)
            ELSE /\ pc' = "pdfplumber"
                 /\ UNCHANGED <<err, raw, meta, tmpFile>>
       ELSE IF tool.kind \in {"FileNotFoundError", "TimeoutExpired"}
            THEN /\ pc' = "pdfplumber"
                 /\ UNCHANGED <<err, raw, meta, tmpFile>>
            ELSE Propagate(tool.kind)
    /\ UNCHANGED <<tool, plumber, pypdf, xvars, rvars>>

\* ---- lines 84-95
TryPlumber ==
    /\ pc = "pdfplumber"
    /\ tried' = Append(tried, "pdfplumber")
    /\ IF plumber.kind = "pages"
       THEN Return(PlumberText(plumber.pages))
       ELSE IF plumber.kind = "ImportError"
            THEN /\ pc' = "pypdf2"
                 /\ UNCHANGED <<err, raw, meta, tmpFile>>
            ELSE Propagate(plumber.kind)
    /\ UNCHANGED <<tool, plumber, pypdf, xvars, rvars>>

\* ---- lines 97-105
TryPyPdf ==
    /\ pc = "pypdf2"
    /\ tried' = Append(tried, "PyPDF2")
    /\ IF pypdf.kind = "pages"
       THEN Return(PyPdfText(pypdf.pages))
       ELSE IF pypdf.kind = "ImportError"
            THEN Return(Placeholder)
            ELSE Propagate(pypdf.kind)
    /\ UNCHANGED <<tool, plumber, pypdf, xvars, rvars>>

InitFetch ==
    /\ pc = "resolve"
    /\ err = ""
    /\ tool \in ToolOutcomes
    /\ plumber \in LibOutcomes("PDFSyntaxError")
    /\ pypdf \in LibOutcomes("PdfReadError")
    /\ tmpFile = "none"
    /\ tried = <<>>
    /\ raw = NoText
    /\ meta = NoText
    /\ IdleExport
    /\ IdleFind

NextFetch ==
    \/ Resolve
    \/ Download
    \/ TryTool
    \/ TryPlumber
    \/ TryPyPdf

SpecFetch == InitFetch /\ [][NextFetch]_vars

(***************************************************************************)
(* Properties of the fetcher (checked under SpecFetch).                    *)
(***************************************************************************)
\* C7: once fetch_paper has stored the text, a text of more than 100,000
\* characters has become its first 100,000 characters followed by the
\* truncation marker, a text of at most 100,000 characters is stored as it is,
\* and truncating the stored text again gives the stored text.
C7_Truncation ==
    meta.set =>
       /\ TLen(raw.text) > Limit =>
             /\ TLen(meta.text) = Limit + Len(MarkerChars)
             /\ TTake(meta.text, Limit) = TTake(raw.text, Limit)
             /\ TDrop(meta.text, Limit) = Marker
       /\ TLen(raw.text) <= Limit => meta.text = raw.text
       /\ Truncate(meta.text) = meta.text

\* C7 witness: a text one character over the limit was cut and marked.
C7_Witness ==
    /\ meta.set
    /\ TLen(raw.text) = Limit + 1
    /\ TLen(meta.text) = Limit + Len(MarkerChars)
    /\ meta.text # raw.text

\* what each backend yields on this machine: its text, or nothing when it is
\* unavailable or fails
ToolYield == IF tool.kind = "exit" /\ tool.rc = 0 THEN tool.out ELSE <<>>
PlumberYield == IF plumber.kind = "pages" THEN PlumberText(plumber.pages) ELSE <<>>
PyPdfYield == IF pypdf.kind = "pages" THEN PyPdfText(pypdf.pages) ELSE <<>>

\* C9 (as claimed): the text returned by extract_text_from_pdf is the output of
\* the first backend, in the order command-line tool, first library, second
\* library, that yields non-empty text, an available backend that yields empty
\* text being passed over; it is the placeholder exactly when no backend
\* yields any text.
C9_FirstNonEmptyWins ==
    raw.set =>
       raw.text = IF NonBlank(ToolYield) THEN ToolYield
                  ELSE IF PlumberYield # <<>> THEN PlumberYield
                  ELSE IF PyPdfYield # <<>> THEN PyPdfYield
                  ELSE Placeholder

\* C10 (as claimed): whenever fetch_paper has ended after creating its
\* temporary file, by returning or by an exception, the file has been removed.
C10_TempFileRemoved ==
    (pc \in {"done", "failed"} /\ tmpFile # "none") => tmpFile = "removed"

==========================================================================
